---- MODULE Spec2Model ----
(***************************************************************************)
(* Model of the content-cleaning pipeline of speed-read:                   *)
(* ContentProcessor._chunk_text, ContentProcessor._process_chunk and       *)
(* ContentProcessor.process_for_reading (src/src/backend/llm_prompts.py).  *)
(*                                                                         *)
(* A text is a sequence of one-character strings.  One behaviour is one    *)
(* call of process_for_reading: Init draws the argument, the actions are   *)
(* the steps of the coroutine between its suspension points and the steps  *)
(* of the executor's worker threads.                                       *)
(***************************************************************************)
EXTENDS Integers, Sequences, FiniteSets, TLC

\* ------------------------------------------------------------------------
\* Bounds of the model and program constants
\* ------------------------------------------------------------------------

\* Longest input text, in characters.
MaxLen == 11

\* Longest input text of the calls checked for termination, in characters.
MaxLiveLen == 9

\* Two concurrent calls: most words of the input of the first call and most
\* chunks of the second call.
MaxTwoCallWords == 5
MaxOtherChunks == 3

\* Longest text an extractor obtains from a page, in characters.
MaxPageLen == 5

\* self.chunk_size (4000 in the source), scaled so that inputs of MaxLen
\* characters split into one, two and three chunks.
chunk_size == 2

\* self.max_workers (50 in the source), scaled so that an input can have
\* more chunks than workers.
max_workers == 2

\* Characters of the input texts, and the characters str.split() and
\* str.strip() treat as whitespace.
Letters == {"a"}
Whitespace == {" ", "\n"}
InputChars == Letters \cup {" "}

Min(a, b) == IF a <= b THEN a ELSE b

\* ------------------------------------------------------------------------
\* str methods
\* ------------------------------------------------------------------------

RECURSIVE SplitFrom(_, _, _, _)
\* Scan text from position i; cur is the word being read, acc the words read.
SplitFrom(text, i, cur, acc) ==
    IF i > Len(text)
    THEN IF cur = <<>> THEN acc ELSE Append(acc, cur)
    ELSE IF text[i] \in Whitespace
         THEN SplitFrom(text, i + 1, <<>>,
                        IF cur = <<>> THEN acc ELSE Append(acc, cur))
         ELSE SplitFrom(text, i + 1, Append(cur, text[i]), acc)

\* text.split(): the maximal runs of non-whitespace characters, in order.
Split(text) == SplitFrom(text, 1, <<>>, <<>>)

RECURSIVE JoinNoSeparator(_, _)
\* Join that forgets the separator: ''.join(parts).
JoinNoSeparator(sep, parts) ==
    IF Len(parts) = 0 THEN <<>>
    ELSE parts[1] \o JoinNoSeparator(sep, Tail(parts))

RECURSIVE Join(_, _)
\* sep.join(parts)
Join(sep, parts) ==
    IF Len(parts) = 0 THEN <<>>
    ELSE IF Len(parts) = 1 THEN parts[1]
    ELSE parts[1] \o sep \o Join(sep, Tail(parts))

RECURSIVE LStrip(_)
LStrip(text) ==
    IF text # <<>> /\ Head(text) \in Whitespace THEN LStrip(Tail(text)) ELSE text

RECURSIVE RStrip(_)
RStrip(text) ==
    IF text # <<>> /\ text[Len(text)] \in Whitespace
    THEN RStrip(SubSeq(text, 1, Len(text) - 1))
    ELSE text

\* text.strip()
Strip(text) == RStrip(LStrip(text))

\* len(text.split())
WordCount(text) == Len(Split(text))

\* Ceil rounding down: total_words // chunk_size.
CeilFloor(a, b) == a \div b

\* Ceil as the integer quotient plus one: int(total_words / chunk_size) + 1.
CeilPlusOne(a, b) == (a \div b) + 1

\* math.ceil(a / b) for a >= 0, b > 0
Ceil(a, b) == (a + b - 1) \div b

\* ------------------------------------------------------------------------
\* ContentProcessor._chunk_text
\* ------------------------------------------------------------------------

\* Slice that loses the last word of the slice: words[start_idx:end_idx - 1].
SliceShort(words, start_idx, end_idx) == SubSeq(words, start_idx + 1, end_idx - 1)

\* words[start_idx:end_idx]
Slice(words, start_idx, end_idx) == SubSeq(words, start_idx + 1, end_idx)

\* ChunkText that returns no chunk for a text without words.
ChunkTextNoEmptyChunk(text) ==
    LET words == Split(text)
        total_words == Len(words)
        num_chunks == Ceil(total_words, chunk_size)
    IN  IF total_words = 0 THEN <<>>
        ELSE IF total_words <= chunk_size
        THEN <<text>>
        ELSE [k \in 1..num_chunks |->
                Join(<<" ">>, Slice(words, (k - 1) * chunk_size,
                                    Min(k * chunk_size, total_words)))]

\* ChunkText without the early return: every text is split and re-joined.
ChunkTextAlwaysJoins(text) ==
    LET words == Split(text)
        total_words == Len(words)
        num_chunks == Ceil(total_words, chunk_size)
    IN  [k \in 1..num_chunks |->
            Join(<<" ">>, Slice(words, (k - 1) * chunk_size,
                                Min(k * chunk_size, total_words)))]

\* The list _chunk_text returns for a str argument; chunk i of the source
\* is element i + 1 of the sequence.
ChunkText(text) ==
    LET words == Split(text)
        total_words == Len(words)
        num_chunks == Ceil(total_words, chunk_size)
    IN  IF total_words <= chunk_size
        THEN <<text>>
        ELSE [k \in 1..num_chunks |->
                Join(<<" ">>, Slice(words, (k - 1) * chunk_size,
                                    Min(k * chunk_size, total_words)))]

\* ------------------------------------------------------------------------
\* State
\* ------------------------------------------------------------------------

VARIABLES
    content,          \* the argument of process_for_reading: [type, value]
    pc,               \* position of the coroutine
    chunks,           \* the list _chunk_text returned
    max_pool,         \* max_workers of the ThreadPoolExecutor of this call
    num_threads,      \* worker threads the executor has started
    work_queue,       \* chunk indexes submitted and not yet picked up
    tasks,            \* the list "tasks": chunk indexes in submission order
    running,          \* chunk indexes whose _process_chunk call is executing
    futures,          \* chunk index -> [done, result] of its future
    calls,            \* chunk index -> what happened to its rewrite call
    completed,        \* chunk indexes in the order their calls resolved
    cleaned_content,  \* local variable cleaned_content
    exc,              \* the exception being handled or propagated, or "none"
    result,           \* the records the call has returned (none or one)
    other,            \* a second call of process_for_reading running meanwhile
    request,          \* what an endpoint received: [endpoint, message]
    hpc,              \* position of the endpoint's coroutine
    hexc,             \* the exception raised while handling the request
    extraction,       \* the records extract_content assigned to its result
    invoked,          \* the functions called for the request, in call order
    response          \* what the endpoint has returned or raised (none or one)

vars == <<content, pc, chunks, max_pool, num_threads, work_queue, tasks,
          running, futures, calls, completed, cleaned_content, exc, result,
          other, request, hpc, hexc, extraction, invoked, response>>

\* The variables of a request to an endpoint of agui_integration.py.
VarsOfRequest == <<request, hpc, hexc, extraction, invoked, response>>

\* All texts of at most n characters.
Texts(n) == UNION {[1..m -> InputChars] : m \in 0..n}

\* The arguments the model passes: str and bytes texts, and None.  Only the
\* type of the argument is kept with it; every text derived from it is kept
\* as its characters.
None == [type |-> "NoneType", value |-> <<>>]
Inputs ==
    {[type |-> t, value |-> v] : t \in {"str", "bytes"}, v \in Texts(MaxLen)}
        \cup {None}

\* What the chat completion call of _process_chunk can do with a chunk:
\* raise, or return a message content.  The contents are the chunk echoed
\* and a rewritten text with whitespace around it.
Rewritten == <<" ", "b", "\n">>
Outcomes(chunk) ==
    {[raised |-> TRUE, response |-> <<>>]}
        \cup {[raised |-> FALSE, response |-> r] : r \in {chunk, Rewritten}}

NoCall == [attempts |-> 0, resolved |-> FALSE, raised |-> FALSE, response |-> <<>>]
Pending == [done |-> FALSE, result |-> [index |-> -1, text |-> <<>>]]

ChunkIndexes == 0..(Len(chunks) - 1)

\* No second call: the call of the model is the only one.
NoOther == [pc |-> "absent", n |-> 0, max_pool |-> 0, num_threads |-> 0,
            submitted |-> 0, queued |-> 0, running |-> 0, resolved |-> 0]

\* No exception has been raised.
NoException == [class |-> "none", text |-> ""]

\* No request: process_for_reading is called directly.
NoRequest ==
    /\ request = [endpoint |-> "none"]
    /\ hpc = "absent"
    /\ hexc = NoException
    /\ extraction = <<>>
    /\ invoked = <<>>
    /\ response = {}

Init ==
    /\ NoRequest
    /\ other = NoOther
    /\ content \in Inputs
    /\ pc = "start"
    /\ chunks = <<>>
    /\ max_pool = 0
    /\ num_threads = 0
    /\ work_queue = <<>>
    /\ tasks = <<>>
    /\ running = {}
    /\ futures = <<>>
    /\ calls = <<>>
    /\ completed = <<>>
    /\ cleaned_content = <<>>
    /\ exc = "none"
    /\ result = {}

\* ------------------------------------------------------------------------
\* _chunk_text as process_for_reading calls it (line 162)
\* ------------------------------------------------------------------------

\* The exception _chunk_text raises for this argument, or "none": None has
\* no split(); ' '.join() of the words of a bytes text raises TypeError.
ChunkTextRaises(c) ==
    IF c.type = "NoneType" THEN "AttributeError"
    ELSE IF c.type = "bytes" /\ WordCount(c.value) > chunk_size THEN "TypeError"
    ELSE "none"

\* PoolSize without the ceiling: max_workers=len(chunks).
PoolSizeUnbounded(n) == n

\* max_workers=min(self.max_workers, len(chunks)) (line 177)
PoolSize(n) == Min(max_workers, n)

\* Lines 160-177: chunk the content; a single chunk goes to the direct call,
\* several chunks get an executor of their own.
Chunk ==
    /\ pc = "start"
    /\ ChunkTextRaises(content) = "none"
    /\ LET cs == ChunkText(content.value) IN
        /\ chunks' = cs
        /\ futures' = [k \in 0..(Len(cs) - 1) |-> Pending]
        /\ calls' = [k \in 0..(Len(cs) - 1) |-> NoCall]
        /\ IF Len(cs) = 1
           THEN pc' = "single" /\ max_pool' = 0
           ELSE pc' = "submit" /\ max_pool' = PoolSize(Len(cs))
    /\ UNCHANGED <<VarsOfRequest, other, content, num_threads, work_queue, tasks, running, completed,
                   cleaned_content, exc, result>>

\* Line 162 raising: control passes to the except clause of line 213.
ChunkFails ==
    /\ pc = "start"
    /\ ChunkTextRaises(content) # "none"
    /\ exc' = ChunkTextRaises(content)
    /\ pc' = "except"
    /\ UNCHANGED <<VarsOfRequest, other, content, chunks, max_pool, num_threads, work_queue, tasks,
                   running, futures, calls, completed, cleaned_content, result>>

\* ------------------------------------------------------------------------
\* ContentProcessor._process_chunk
\* ------------------------------------------------------------------------

\* ProcessChunk with the except clause returning no text instead of the chunk.
ProcessChunkDropsOnError(chunk, chunk_index, outcome) ==
    IF outcome.raised
    THEN [index |-> chunk_index, text |-> <<>>]
    ELSE [index |-> chunk_index, text |-> Strip(outcome.response)]

\* The tuple (chunk_index, text) _process_chunk returns: the stripped message
\* content, or the chunk itself when anything in the try block raised.
ProcessChunk(chunk, chunk_index, outcome) ==
    IF outcome.raised
    THEN [index |-> chunk_index, text |-> chunk]
    ELSE [index |-> chunk_index, text |-> Strip(outcome.response)]

\* A thread enters _process_chunk for chunk k.
Started(k) == [calls EXCEPT ![k].attempts = @ + 1]

\* ------------------------------------------------------------------------
\* Single chunk: lines 164-171
\* ------------------------------------------------------------------------

\* asyncio.to_thread hands _process_chunk(chunks[0], 0) to a thread of the
\* loop's default executor and the coroutine suspends.
ToThread ==
    /\ pc = "single"
    /\ running' = running \cup {0}
    /\ calls' = Started(0)
    /\ pc' = "await_single"
    /\ UNCHANGED <<VarsOfRequest, other, content, chunks, max_pool, num_threads, work_queue, tasks,
                   futures, completed, cleaned_content, exc, result>>

\* The coroutine resumes with the tuple of the only call (line 167).
AwaitSingle ==
    /\ pc = "await_single"
    /\ futures[0].done
    /\ cleaned_content' = futures[0].result.text
    /\ pc' = "assemble"
    /\ UNCHANGED <<VarsOfRequest, other, content, chunks, max_pool, num_threads, work_queue, tasks,
                   running, futures, calls, completed, exc, result>>

\* ------------------------------------------------------------------------
\* Several chunks: lines 172-199
\* ------------------------------------------------------------------------

\* Submit with the loop ending one chunk early.
SubmitSkipsLast ==
    /\ pc = "submit"
    /\ LET i == Len(tasks) IN
        /\ i < Len(chunks)
        /\ work_queue' = Append(work_queue, i)
        /\ tasks' = Append(tasks, i)
        /\ num_threads' = IF num_threads < max_pool THEN num_threads + 1
                          ELSE num_threads
        /\ pc' = IF i + 2 >= Len(chunks) THEN "gather" ELSE "submit"
    /\ UNCHANGED <<VarsOfRequest, other, content, chunks, max_pool, running, futures, calls,
                   completed, cleaned_content, exc, result>>

\* One iteration of the loop of lines 182-189: loop.run_in_executor queues
\* the call for chunk i = len(tasks); the executor starts another worker
\* thread while it has fewer than its max_workers.
Submit ==
    /\ pc = "submit"
    /\ LET i == Len(tasks) IN
        /\ i < Len(chunks)
        /\ work_queue' = Append(work_queue, i)
        /\ tasks' = Append(tasks, i)
        /\ num_threads' = IF num_threads < max_pool THEN num_threads + 1
                          ELSE num_threads
        /\ pc' = IF i + 1 = Len(chunks) THEN "gather" ELSE "submit"
    /\ UNCHANGED <<VarsOfRequest, other, content, chunks, max_pool, running, futures, calls,
                   completed, cleaned_content, exc, result>>

\* WorkerStart with worker threads that end after their first call.
WorkerStartOnce ==
    /\ work_queue # <<>>
    /\ Cardinality(running) + Len(completed) < num_threads
    /\ LET k == Head(work_queue) IN
        /\ running' = running \cup {k}
        /\ calls' = Started(k)
    /\ work_queue' = Tail(work_queue)
    /\ UNCHANGED <<VarsOfRequest, other, content, pc, chunks, max_pool, num_threads, tasks, futures,
                   completed, cleaned_content, exc, result>>

\* An idle worker thread takes the oldest queued call and enters
\* _process_chunk with it.
WorkerStart ==
    /\ work_queue # <<>>
    /\ Cardinality(running) < num_threads
    /\ LET k == Head(work_queue) IN
        /\ running' = running \cup {k}
        /\ calls' = Started(k)
    /\ work_queue' = Tail(work_queue)
    /\ UNCHANGED <<VarsOfRequest, other, content, pc, chunks, max_pool, num_threads, tasks, futures,
                   completed, cleaned_content, exc, result>>

\* The _process_chunk call of chunk k returns and its future gets the tuple.
Resolve(k, outcome) ==
    /\ k \in running
    /\ running' = running \ {k}
    /\ futures' = [futures EXCEPT ![k] =
                    [done |-> TRUE,
                     result |-> ProcessChunk(chunks[k + 1], k, outcome)]]
    /\ calls' = [calls EXCEPT ![k].resolved = TRUE,
                              ![k].raised = outcome.raised,
                              ![k].response = outcome.response]
    /\ completed' = Append(completed, k)
    /\ UNCHANGED <<VarsOfRequest, other, content, pc, chunks, max_pool, num_threads, work_queue,
                   tasks, cleaned_content, exc, result>>

\* GatherReady that lets the coroutine go on at the first finished task.
GatherFirstCompleted == \E k \in 1..Len(tasks) : futures[tasks[k]].done

\* asyncio.gather(*tasks) lets the coroutine go on when every task is done.
GatherReady == \A k \in 1..Len(tasks) : futures[tasks[k]].done

\* The list gather returns: the tasks' results in the order of "tasks".
GatherResults == [k \in 1..Len(tasks) |-> futures[tasks[k]].result]

RECURSIVE InsertByIndex(_, _)
\* r placed in the sorted list s after every element whose index is not larger
InsertByIndex(s, r) ==
    IF s = <<>> THEN <<r>>
    ELSE IF r.index < Head(s).index THEN <<r>> \o s
    ELSE <<Head(s)>> \o InsertByIndex(Tail(s), r)

RECURSIVE SortedFrom(_, _, _)
SortedFrom(results, k, acc) ==
    IF k > Len(results) THEN acc
    ELSE SortedFrom(results, k + 1, InsertByIndex(acc, results[k]))

RECURSIVE Reversed(_)
Reversed(s) == IF s = <<>> THEN <<>> ELSE Append(Reversed(Tail(s)), Head(s))

\* Sorted with the order inverted: sorted(..., reverse=True).
SortedDescending(results) == Reversed(SortedFrom(results, 1, <<>>))

\* sorted(results, key=lambda x: x[0]) (line 195): stable, ascending index
Sorted(results) == SortedFrom(results, 1, <<>>)

\* Combine joining with a single newline: '\n'.join(cleaned_chunks).
CombineSingleNewline(results) ==
    LET sorted_results == Sorted(results)
        cleaned_chunks == [k \in 1..Len(sorted_results) |-> sorted_results[k].text]
    IN  Join(<<"\n">>, cleaned_chunks)

\* Lines 195-199: sort by chunk index, take the texts, join with a blank line.
Combine(results) ==
    LET sorted_results == Sorted(results)
        cleaned_chunks == [k \in 1..Len(sorted_results) |-> sorted_results[k].text]
    IN  Join(<<"\n", "\n">>, cleaned_chunks)

\* Lines 192-199: the coroutine resumes from gather and combines the results;
\* leaving the with block shuts the executor down.
Gather ==
    /\ pc = "gather"
    /\ GatherReady
    /\ cleaned_content' = Combine(GatherResults)
    /\ pc' = "assemble"
    /\ UNCHANGED <<VarsOfRequest, other, content, chunks, max_pool, num_threads, work_queue, tasks,
                   running, futures, calls, completed, exc, result>>

\* ------------------------------------------------------------------------
\* The two returns: lines 201-211 and lines 213-222
\* ------------------------------------------------------------------------

\* CleanedRecord with success meaning that no rewrite call raised.
CleanedRecordFlagsFailures(text, n) ==
    [cleaned_content |-> text, word_count |-> WordCount(text),
     chunks_processed |-> n,
     success |-> \A k \in DOMAIN calls : ~calls[k].raised]

\* CleanedRecord with an error field added when a rewrite call raised.
CleanedRecordReportsFailures(text, n) ==
    IF \E k \in DOMAIN calls : calls[k].raised
    THEN [cleaned_content |-> text, word_count |-> WordCount(text),
          chunks_processed |-> n, success |-> TRUE, error |-> "partial"]
    ELSE [cleaned_content |-> text, word_count |-> WordCount(text),
          chunks_processed |-> n, success |-> TRUE]

\* CleanedRecord with the word count of the original content.
CleanedRecordStaleCount(text, n) ==
    [cleaned_content |-> text, word_count |-> WordCount(content.value),
     chunks_processed |-> n, success |-> TRUE]

\* CleanedRecord counting only the chunks whose rewrite did not raise.
CleanedRecordCountsSuccesses(text, n) ==
    [cleaned_content |-> text, word_count |-> WordCount(text),
     chunks_processed |-> n - Cardinality({k \in DOMAIN calls : calls[k].raised}),
     success |-> TRUE]

CleanedRecord(text, n) ==
    [cleaned_content |-> text, word_count |-> WordCount(text),
     chunks_processed |-> n, success |-> TRUE]

FallbackRecord(text, e) ==
    [cleaned_content |-> text, word_count |-> WordCount(text),
     chunks_processed |-> 0, success |-> FALSE, error |-> e]

\* Lines 201-211
Return ==
    /\ pc = "assemble"
    /\ result' = {CleanedRecord(cleaned_content, Len(chunks))}
    /\ pc' = "returned"
    /\ UNCHANGED <<VarsOfRequest, other, content, chunks, max_pool, num_threads, work_queue, tasks,
                   running, futures, calls, completed, cleaned_content, exc>>

\* The exception content.split() raises in the except clause (line 218), or
\* "none": str and bytes have split(), None has not.
FallbackRaises(c) == IF c.type = "NoneType" THEN "AttributeError" ELSE "none"

\* Lines 213-222 when building the fallback record succeeds.
ExceptReturn ==
    /\ pc = "except"
    /\ FallbackRaises(content) = "none"
    /\ result' = {FallbackRecord(content.value, exc)}
    /\ pc' = "returned"
    /\ UNCHANGED <<VarsOfRequest, other, content, chunks, max_pool, num_threads, work_queue, tasks,
                   running, futures, calls, completed, cleaned_content, exc>>

\* Lines 213-222 when building the fallback record raises: the exception
\* leaves process_for_reading.
ExceptRaises ==
    /\ pc = "except"
    /\ FallbackRaises(content) # "none"
    /\ exc' = FallbackRaises(content)
    /\ pc' = "raised"
    /\ UNCHANGED <<VarsOfRequest, other, content, chunks, max_pool, num_threads, work_queue, tasks,
                   running, futures, calls, completed, cleaned_content, result>>

Next ==
    \/ Chunk
    \/ ChunkFails
    \/ ToThread
    \/ AwaitSingle
    \/ Submit
    \/ WorkerStart
    \/ \E k \in ChunkIndexes : \E o \in Outcomes(chunks[k + 1]) : Resolve(k, o)
    \/ Gather
    \/ Return
    \/ ExceptReturn
    \/ ExceptRaises

Spec == Init /\ [][Next]_vars

\* The calls whose argument has at most MaxLiveLen characters.
LiveInit == Init /\ Len(content.value) <= MaxLiveLen

\* Every step of the coroutine and of the worker threads is eventually taken
\* when it stays possible: the event loop runs a ready coroutine, the
\* operating system runs a ready thread, and every rewrite call resolves.
FairSpec == LiveInit /\ [][Next]_vars /\ WF_vars(Next)

\* ------------------------------------------------------------------------
\* A second call of process_for_reading on the same ContentProcessor
\* ------------------------------------------------------------------------
\* AGUIHandler awaits process_for_reading once per request
\* (agui_integration.py, lines 105-108), so a second request can be inside
\* process_for_reading while the first one is suspended.  Of the second call
\* the model keeps what its executor does: the number n of its chunks and how
\* many of its rewrite calls are submitted, queued, executing and resolved.

VarsOfFirstCall ==
    <<content, pc, chunks, max_pool, num_threads, work_queue, tasks, running,
      futures, calls, completed, cleaned_content, exc, result>>

\* Lines 164 and 177 of the second call: a single chunk goes to the direct
\* call, several chunks get an executor of the call's own.
OtherChunk ==
    /\ other.pc = "start"
    /\ other' = IF other.n = 1
                THEN [other EXCEPT !.pc = "single"]
                ELSE [other EXCEPT !.pc = "submit", !.max_pool = PoolSize(other.n)]
    /\ UNCHANGED <<VarsOfRequest, VarsOfFirstCall>>

\* Lines 167-171 of the second call.
OtherToThread ==
    /\ other.pc = "single"
    /\ other' = [other EXCEPT !.pc = "await", !.submitted = 1, !.running = 1]
    /\ UNCHANGED <<VarsOfRequest, VarsOfFirstCall>>

\* One iteration of the loop of lines 182-189 of the second call.
OtherSubmit ==
    /\ other.pc = "submit"
    /\ other.submitted < other.n
    /\ other' = [other EXCEPT
                    !.submitted = @ + 1,
                    !.queued = @ + 1,
                    !.num_threads = IF @ < other.max_pool THEN @ + 1 ELSE @,
                    !.pc = IF other.submitted + 1 = other.n THEN "await"
                           ELSE "submit"]
    /\ UNCHANGED <<VarsOfRequest, VarsOfFirstCall>>

\* An idle worker thread of the second call's executor takes a queued call.
OtherWorkerStart ==
    /\ other.queued > 0
    /\ other.running < other.num_threads
    /\ other' = [other EXCEPT !.queued = @ - 1, !.running = @ + 1]
    /\ UNCHANGED <<VarsOfRequest, VarsOfFirstCall>>

\* A _process_chunk call of the second call returns.
OtherResolve ==
    /\ other.running > 0
    /\ other' = [other EXCEPT !.running = @ - 1, !.resolved = @ + 1]
    /\ UNCHANGED <<VarsOfRequest, VarsOfFirstCall>>

\* Lines 167 and 192-211 of the second call: every future is done, the
\* second call combines its results and returns.
OtherReturn ==
    /\ other.pc = "await"
    /\ other.resolved = other.n
    /\ other' = [other EXCEPT !.pc = "returned"]
    /\ UNCHANGED <<VarsOfRequest, VarsOfFirstCall>>

RECURSIVE WordsText(_)
\* The text of k words "a" separated by single spaces.
WordsText(k) ==
    IF k = 0 THEN <<>>
    ELSE IF k = 1 THEN <<"a">>
    ELSE <<"a", " ">> \o WordsText(k - 1)

\* The arguments of the first call when two calls run.
TwoCallInputs ==
    {[type |-> t, value |-> WordsText(k)] :
        t \in {"str", "bytes"}, k \in 0..MaxTwoCallWords} \cup {None}

TwoCallInit ==
    /\ NoRequest
    /\ content \in TwoCallInputs
    /\ other \in {[NoOther EXCEPT !.pc = "start", !.n = n] : n \in 1..MaxOtherChunks}
    /\ pc = "start"
    /\ chunks = <<>>
    /\ max_pool = 0
    /\ num_threads = 0
    /\ work_queue = <<>>
    /\ tasks = <<>>
    /\ running = {}
    /\ futures = <<>>
    /\ calls = <<>>
    /\ completed = <<>>
    /\ cleaned_content = <<>>
    /\ exc = "none"
    /\ result = {}

TwoCallNext ==
    \/ Next
    \/ OtherChunk
    \/ OtherToThread
    \/ OtherSubmit
    \/ OtherWorkerStart
    \/ OtherResolve
    \/ OtherReturn

TwoCallSpec == TwoCallInit /\ [][TwoCallNext]_vars

\* ------------------------------------------------------------------------
\* FirecrawlConfig.extract_content (src/src/backend/firecrawl_config.py)
\* ------------------------------------------------------------------------
\* An extraction record keeps the fields url, title, content, word_count,
\* success and error of the source's dictionary, and of its metadata the
\* extraction_method.  None is written null.

null == "None"

\* The text html2text makes of a page.
PageChars == InputChars \cup {"\n"}
PageTexts == UNION {[1..m -> PageChars] : m \in 0..MaxPageLen}

RECURSIVE SplitLinesFrom(_, _, _, _)
SplitLinesFrom(text, i, cur, acc) ==
    IF i > Len(text) THEN Append(acc, cur)
    ELSE IF text[i] = "\n"
         THEN SplitLinesFrom(text, i + 1, <<>>, Append(acc, cur))
         ELSE SplitLinesFrom(text, i + 1, Append(cur, text[i]), acc)

\* text.split('\n'): the pieces between the newlines, empty ones included.
SplitLines(text) == SplitLinesFrom(text, 1, <<>>, <<>>)

\* Lines 196-203: the stripped non-empty lines joined by blank lines.
CleanedLines(text_content) ==
    LET lines == SplitLines(text_content)
        stripped == [k \in 1..Len(lines) |-> Strip(lines[k])]
        cleaned_lines == SelectSeq(stripped, LAMBDA line : line # <<>>)
    IN  Join(<<"\n", "\n">>, cleaned_lines)

\* "Could not extract content from the page." (line 205): a fixed text that
\* fits one chunk, here of chunk_size words.
CouldNotExtract == <<"a", " ", "a">>

\* What fetching and parsing the page can do: raise (httpx.get,
\* raise_for_status), or give a document without or with a body.
BeautifulSoupOutcomes ==
    {[raised |-> TRUE, body |-> FALSE, text |-> <<>>],
     [raised |-> FALSE, body |-> FALSE, text |-> <<>>]}
        \cup {[raised |-> FALSE, body |-> TRUE, text |-> t] : t \in PageTexts}

\* What app.scrape_url can do: raise, or return a result without or with
\* the key 'content'.
FirecrawlOutcomes ==
    {[raised |-> TRUE, has_content |-> FALSE, content |-> <<>>],
     [raised |-> FALSE, has_content |-> FALSE, content |-> <<>>]}
        \cup {[raised |-> FALSE, has_content |-> TRUE, content |-> t] :
                t \in Texts(MaxPageLen)}

\* The record of the except clauses (lines 120-130 and 233-243).
ExtractionFailure(url, error) ==
    [url |-> url, title |-> "Error", content |-> <<>>, word_count |-> 0,
     extraction_method |-> null, success |-> FALSE, error |-> error]

\* Lines 217-229 and 104-116.
ExtractionSuccess(url, text, method) ==
    [url |-> url, title |-> "Example Domain", content |-> text,
     word_count |-> WordCount(text), extraction_method |-> method,
     success |-> TRUE, error |-> null]

\* FirecrawlConfig._beautifulsoup_extract (lines 132-243)
BeautifulSoupExtract(url, o) ==
    IF o.raised
    THEN ExtractionFailure(url, "BeautifulSoup extraction failed: ConnectError")
    ELSE ExtractionSuccess(url,
                           IF o.body THEN CleanedLines(o.text)
                           ELSE CouldNotExtract,
                           "beautifulsoup_primary")

\* FirecrawlConfig._firecrawl_fallback (lines 71-130): a result without
\* content raises ValueError inside the try block (lines 93-94).
FirecrawlFallback(url, o) ==
    IF o.raised
    THEN ExtractionFailure(url,
            "Both BeautifulSoup and Firecrawl failed: Unexpected error")
    ELSE IF ~o.has_content
    THEN ExtractionFailure(url,
            "Both BeautifulSoup and Firecrawl failed: No content extracted from URL")
    ELSE ExtractionSuccess(url, o.content, "firecrawl_fallback")

\* NeedsFallback trying Firecrawl after every first attempt.
NeedsFallbackAlways(first) == TRUE

\* if not result["success"] (line 64)
NeedsFallback(first) == ~first.success

\* The value of result in extract_content, and what it returns (line 69).
Last(s) == s[Len(s)]

\* ------------------------------------------------------------------------
\* AGUIHandler and the endpoints (src/src/backend/agui_integration.py and
\* src/main.py)
\* ------------------------------------------------------------------------
\* One behaviour is one request: a message to handle_message (the WebSocket
\* endpoint), or a body posted to /api/extract, which extract_url and
\* extract_url_route serve.  A JSON document is kept as the value it encodes.

Url == "https://example.com"

\* msg.data or the posted body when it is a JSON object: without the key
\* "url", with an empty url, with a url.
Dicts ==
    {[type |-> "dict", keys |-> {}, url |-> ""],
     [type |-> "dict", keys |-> {"url"}, url |-> ""],
     [type |-> "dict", keys |-> {"url"}, url |-> Url]}

\* msg.data when it is a JSON string; FastAPI lets only objects reach
\* extract_url and extract_url_route.
NotADict == [type |-> "str", keys |-> {}, url |-> ""]

\* The keys of self.handlers (lines 37-39)
handlers == {"extract_and_prepare"}

\* The values of the key "action": the name of the handler, another name,
\* and the JSON array holding the name of the handler.
ActionValues ==
    {[type |-> "str", name |-> "extract_and_prepare"],
     [type |-> "str", name |-> "summarize"],
     [type |-> "list", name |-> "extract_and_prepare"]}

\* The fields of AGUIMessage without and with a default (lines 22-28).
Required == {"type", "action", "data"}
Fields == Required \cup {"id"}

\* A message that is no JSON document ("invalid") or no JSON object
\* ("array").
Malformed(json) ==
    [json |-> json, keys |-> {}, action |-> [type |-> "str", name |-> ""],
     data |-> NotADict]

\* The messages: malformed ones, objects with the required keys and with or
\* without "id", an object without "action", an object with an unknown key.
Messages ==
    {Malformed("invalid"), Malformed("array")}
        \cup {[json |-> "object", keys |-> k, action |-> a, data |-> d] :
                k \in {Required, Fields}, a \in ActionValues,
                d \in Dicts \cup {NotADict}}
        \cup {[Malformed("object") EXCEPT !.keys = k] :
                k \in {Required \ {"action"}, Required \cup {"extra"}}}

RestEndpoints == {"extract_url", "extract_url_route"}

Requests ==
    {[endpoint |-> "handle_message", message |-> m] : m \in Messages}
        \cup {[endpoint |-> e, request |-> d] :
                e \in RestEndpoints, d \in Dicts}

\* The argument "data" of handle_extract_and_prepare.
Data ==
    IF request.endpoint = "handle_message" THEN request.message.data
    ELSE request.request

\* The exceptions of the model, with str(e).
JSONDecodeError ==
    [class |-> "JSONDecodeError",
     text |-> "Expecting value: line 1 column 1 (char 0)"]
NotAMapping ==
    [class |-> "TypeError",
     text |-> "AGUIMessage() argument after ** must be a mapping, not list"]
MissingArgument ==
    [class |-> "TypeError",
     text |-> "AGUIMessage.__init__() missing 1 required positional argument: 'action'"]
UnexpectedArgument ==
    [class |-> "TypeError",
     text |-> "AGUIMessage.__init__() got an unexpected keyword argument 'extra'"]
Unhashable == [class |-> "TypeError", text |-> "unhashable type: 'list'"]
NoGet ==
    [class |-> "AttributeError",
     text |-> "'str' object has no attribute 'get'"]
UrlRequired == [class |-> "ValueError", text |-> "URL is required"]

\* The classes above, all subclasses of Exception.
ExceptionClasses ==
    {"JSONDecodeError", "TypeError", "AttributeError", "ValueError"}

\* Catches for a clause that names one class: except ValueError as e
\* (JSONDecodeError is a subclass of ValueError).
CatchesValueError(e) == e.class \in {"ValueError", "JSONDecodeError"}

\* Catches for an endpoint without the try statement.
CatchesNothing(e) == FALSE

\* except Exception as e (agui_integration.py lines 77 and 202, main.py
\* line 69)
Catches(e) == e.class \in ExceptionClasses

\* Lines 53-54: json.loads(message) and AGUIMessage(**msg_data).
ParseRaises(m) ==
    IF m.json = "invalid" THEN JSONDecodeError
    ELSE IF m.json # "object" THEN NotAMapping
    ELSE IF ~(Required \subseteq m.keys) THEN MissingArgument
    ELSE IF ~(m.keys \subseteq Fields) THEN UnexpectedArgument
    ELSE NoException

\* msg.action in self.handlers (line 57) hashes msg.action.
LookupRaises(msg) ==
    IF msg.action.type = "list" THEN Unhashable ELSE NoException

\* msg.action in self.handlers (line 57), for an action that can be hashed
Known(msg) == msg.action.name \in handlers

\* Lines 87-89: data.get("url") and the test of url.
RequireUrlRaises(data) ==
    IF data.type # "dict" THEN NoGet
    ELSE IF "url" \notin data.keys \/ data.url = "" THEN UrlRequired
    ELSE NoException

\* msg.id: the key "id" of the message, or the default None.
Id(msg) == IF "id" \in msg.keys THEN "1" ELSE null

\* f"Unknown action: {msg.action}"
UnknownAction(action) ==
    IF action.name = "summarize" THEN "Unknown action: summarize"
    ELSE "Unknown action: extract_and_prepare"

\* ResponseMessage reporting the success of the data: "success":
\* result["success"].
ResponseMessageOfData(msg, r) ==
    [type |-> "response", action |-> msg.action, id |-> Id(msg),
     success |-> r.success, data |-> r]

\* Lines 59-65
ResponseMessage(msg, r) ==
    [type |-> "response", action |-> msg.action, id |-> Id(msg),
     success |-> TRUE, data |-> r]

\* Lines 67-73
UnknownActionMessage(msg) ==
    [type |-> "error", action |-> msg.action, id |-> Id(msg),
     success |-> FALSE, error |-> UnknownAction(msg.action)]

\* Lines 79-83
ErrorMessage(e) == [type |-> "error", success |-> FALSE, error |-> e.text]

\* agui_integration.py lines 203-206, main.py line 70
RestError(e) == [success |-> FALSE, error |-> e.text]

\* What an endpoint does at its end: it returns a value, or an exception
\* leaves it.
EndpointReturns(v) == [raised |-> FALSE, value |-> v]
EndpointRaises(e) == [raised |-> TRUE, value |-> e]

\* The endpoint returning what handle_extract_and_prepare returned
\* (agui_integration.py lines 58-65, 75 and 200-201, main.py lines 67-68).
Respond(r) ==
    IF request.endpoint = "handle_message"
    THEN EndpointReturns(ResponseMessage(request.message, r))
    ELSE EndpointReturns(r)

\* ExtractionSucceeded taking every extraction for a success.
ExtractionSucceededAlways(e) == TRUE

\* extraction["success"] (line 99)
ExtractionSucceeded(e) == e.success

\* Prepared keeping the word count of the extraction in both branches.
PreparedExtractionCount(e, processed) ==
    IF ~processed.success
    THEN [url |-> e.url, title |-> e.title, content |-> e.content,
          word_count |-> e.word_count, chunks_processed |-> 0,
          success |-> TRUE]
    ELSE [url |-> e.url, title |-> e.title,
          content |-> processed.cleaned_content,
          word_count |-> e.word_count,
          chunks_processed |-> processed.chunks_processed,
          success |-> TRUE]

\* Lines 110-130: the record handle_extract_and_prepare builds from the
\* extraction and from the record of process_for_reading (without
\* estimated_reading_time).
Prepared(e, processed) ==
    IF ~processed.success
    THEN [url |-> e.url, title |-> e.title, content |-> e.content,
          word_count |-> e.word_count, chunks_processed |-> 0,
          success |-> TRUE]
    ELSE [url |-> e.url, title |-> e.title,
          content |-> processed.cleaned_content,
          word_count |-> processed.word_count,
          chunks_processed |-> processed.chunks_processed,
          success |-> TRUE]

\* The record process_for_reading returned to the handler.
Processed == CHOOSE r \in result : TRUE

\* handle_message, lines 53-54: the message is parsed and the AGUIMessage
\* is built, or one of the two raises.
ParseMessage ==
    /\ hpc = "received"
    /\ request.endpoint = "handle_message"
    /\ LET e == ParseRaises(request.message) IN
        IF e = NoException
        THEN hpc' = "route" /\ hexc' = hexc
        ELSE hpc' = "except" /\ hexc' = e
    /\ UNCHANGED <<request, extraction, invoked, response, other,
                   VarsOfFirstCall>>

\* Lines 57-58: the action is a key of the table and its handler is called.
Route ==
    /\ hpc = "route"
    /\ LookupRaises(request.message) = NoException
    /\ Known(request.message)
    /\ invoked' = Append(invoked, "handle_extract_and_prepare")
    /\ hpc' = "handler"
    /\ UNCHANGED <<request, hexc, extraction, response, other,
                   VarsOfFirstCall>>

\* Lines 66-75: the action is no key of the table.
RouteUnknown ==
    /\ hpc = "route"
    /\ LookupRaises(request.message) = NoException
    /\ ~Known(request.message)
    /\ response' = {EndpointReturns(UnknownActionMessage(request.message))}
    /\ hpc' = "done"
    /\ UNCHANGED <<request, hexc, extraction, invoked, other,
                   VarsOfFirstCall>>

\* Line 57 raising.
RouteFails ==
    /\ hpc = "route"
    /\ LookupRaises(request.message) # NoException
    /\ hexc' = LookupRaises(request.message)
    /\ hpc' = "except"
    /\ UNCHANGED <<request, extraction, invoked, response, other,
                   VarsOfFirstCall>>

\* extract_url (agui_integration.py lines 199-200) and extract_url_route
\* (main.py lines 66-67) call the handler with the posted body.
RestCall ==
    /\ hpc = "received"
    /\ request.endpoint \in RestEndpoints
    /\ invoked' = Append(invoked, "handle_extract_and_prepare")
    /\ hpc' = "handler"
    /\ UNCHANGED <<request, hexc, extraction, response, other,
                   VarsOfFirstCall>>

\* handle_extract_and_prepare, lines 87-91: there is a url.
RequireUrl ==
    /\ hpc = "handler"
    /\ RequireUrlRaises(Data) = NoException
    /\ hpc' = "extract"
    /\ UNCHANGED <<request, hexc, extraction, invoked, response, other,
                   VarsOfFirstCall>>

\* Lines 87-89 raising: the exception leaves the handler.
RequireUrlFails ==
    /\ hpc = "handler"
    /\ RequireUrlRaises(Data) # NoException
    /\ hexc' = RequireUrlRaises(Data)
    /\ hpc' = "except"
    /\ UNCHANGED <<request, extraction, invoked, response, other,
                   VarsOfFirstCall>>

\* Lines 94-97 and extract_content, lines 59-64: the first attempt.
TryBeautifulSoup(o) ==
    /\ hpc = "extract"
    /\ LET first == BeautifulSoupExtract(Data.url, o) IN
        /\ extraction' = <<first>>
        /\ hpc' = IF NeedsFallback(first) THEN "fallback" ELSE "extracted"
    /\ invoked' = invoked \o <<"extract_content", "_beautifulsoup_extract">>
    /\ UNCHANGED <<request, hexc, response, other, VarsOfFirstCall>>

\* extract_content, lines 64-67: the second attempt.
TryFirecrawl(o) ==
    /\ hpc = "fallback"
    /\ extraction' = Append(extraction, FirecrawlFallback(Data.url, o))
    /\ invoked' = Append(invoked, "_firecrawl_fallback")
    /\ hpc' = "extracted"
    /\ UNCHANGED <<request, hexc, response, other, VarsOfFirstCall>>

\* Lines 99-101: the handler returns the extraction that failed.
ReturnExtraction ==
    /\ hpc = "extracted"
    /\ ~ExtractionSucceeded(Last(extraction))
    /\ response' = {Respond(Last(extraction))}
    /\ hpc' = "done"
    /\ UNCHANGED <<request, hexc, extraction, invoked, other,
                   VarsOfFirstCall>>

\* Lines 103-108: the handler calls process_for_reading with the content of
\* the extraction.
Clean ==
    /\ hpc = "extracted"
    /\ ExtractionSucceeded(Last(extraction))
    /\ invoked' = Append(invoked, "process_for_reading")
    /\ content' = [type |-> "str", value |-> Last(extraction).content]
    /\ pc' = "start"
    /\ hpc' = "cleaning"
    /\ UNCHANGED <<request, hexc, extraction, response, other, chunks,
                   max_pool, num_threads, work_queue, tasks, running,
                   futures, calls, completed, cleaned_content, exc, result>>

\* llm_prompts.py, lines 167 and 177-184: no thread can be started for the
\* first rewrite call (RuntimeError of threading), and control passes to the
\* except clause of line 213 before any rewrite call is made.
DispatchFails ==
    /\ pc \in {"single", "submit"}
    /\ tasks = <<>>
    /\ exc' = "RuntimeError"
    /\ pc' = "except"
    /\ UNCHANGED <<VarsOfRequest, other, content, chunks, max_pool,
                   num_threads, work_queue, tasks, running, futures, calls,
                   completed, cleaned_content, result>>

\* Lines 110-132: process_for_reading has returned; the handler builds its
\* result and returns it.
Prepare ==
    /\ hpc = "cleaning"
    /\ pc = "returned"
    /\ response' = {Respond(Prepared(Last(extraction), Processed))}
    /\ hpc' = "done"
    /\ UNCHANGED <<request, hexc, extraction, invoked, other,
                   VarsOfFirstCall>>

\* The except clause of the endpoint (agui_integration.py lines 77-83 and
\* 202-206, main.py lines 69-70).
Except ==
    /\ hpc = "except"
    /\ response' =
        {IF ~Catches(hexc) THEN EndpointRaises(hexc)
         ELSE IF request.endpoint = "handle_message"
              THEN EndpointReturns(ErrorMessage(hexc))
              ELSE EndpointReturns(RestError(hexc))}
    /\ hpc' = "done"
    /\ UNCHANGED <<request, hexc, extraction, invoked, other,
                   VarsOfFirstCall>>

\* A request has arrived; process_for_reading has not been called.
RequestInit ==
    /\ request \in Requests
    /\ hpc = "received"
    /\ hexc = NoException
    /\ extraction = <<>>
    /\ invoked = <<>>
    /\ response = {}
    /\ other = NoOther
    /\ content = [type |-> "str", value |-> <<>>]
    /\ pc = "idle"
    /\ chunks = <<>>
    /\ max_pool = 0
    /\ num_threads = 0
    /\ work_queue = <<>>
    /\ tasks = <<>>
    /\ running = {}
    /\ futures = <<>>
    /\ calls = <<>>
    /\ completed = <<>>
    /\ cleaned_content = <<>>
    /\ exc = "none"
    /\ result = {}

\* The steps of a request.  The content of a successful extraction is a
\* str, so that of process_for_reading the steps for a str are taken.
RequestNext ==
    \/ ParseMessage
    \/ Route
    \/ RouteUnknown
    \/ RouteFails
    \/ RestCall
    \/ RequireUrl
    \/ RequireUrlFails
    \/ \E o \in BeautifulSoupOutcomes : TryBeautifulSoup(o)
    \/ \E o \in FirecrawlOutcomes : TryFirecrawl(o)
    \/ ReturnExtraction
    \/ Clean
    \/ Chunk
    \/ ToThread
    \/ AwaitSingle
    \/ Submit
    \/ WorkerStart
    \/ \E k \in ChunkIndexes : \E o \in Outcomes(chunks[k + 1]) : Resolve(k, o)
    \/ Gather
    \/ Return
    \/ DispatchFails
    \/ ExceptReturn
    \/ Prepare
    \/ Except

RequestSpec == RequestInit /\ [][RequestNext]_vars

\* ------------------------------------------------------------------------
\* Properties
\* ------------------------------------------------------------------------

BlankLine == <<"\n", "\n">>

\* The call has left the try block through line 206 or line 216.
Returned == pc = "returned"

\* The text the rewrite call of chunk k stands for once it has resolved: the
\* stripped message content, or the original chunk when the call raised.
Expected(k) ==
    IF calls[k].raised THEN chunks[k + 1] ELSE Strip(calls[k].response)

Failed == {k \in ChunkIndexes : calls[k].resolved /\ calls[k].raised}

\* C1: for an input of N > 1 chunks the combined text is made of exactly N
\* results, one per index 0..N-1, in ascending index order, whatever the
\* order in which the calls completed.
C1_OrderedByIndex ==
    (Returned /\ Len(chunks) > 1) =>
        /\ Len(GatherResults) = Len(chunks)
        /\ \A k \in 1..Len(chunks) : Sorted(GatherResults)[k].index = k - 1
        /\ \A r \in result :
              r.cleaned_content =
                  Join(BlankLine, [k \in 1..Len(chunks) |-> Expected(k - 1)])

\* Three chunks with different texts whose calls completed in the order
\* 1, 2, 0, and the call has returned.
C1_Witness ==
    /\ Returned
    /\ Len(chunks) = 3
    /\ completed = <<1, 2, 0>>
    /\ Expected(0) # Expected(2)

\* C2 as claimed: when the rewrite fails for chunk i only, result i has
\* succeeded=false and the original text of chunk i, every other result
\* carries the rewrite of its chunk, and no exception reaches the caller.
C2_Original ==
    (pc \in {"assemble", "returned"} /\ Len(chunks) > 1 /\ Cardinality(Failed) = 1) =>
        /\ exc = "none"
        /\ \A k \in ChunkIndexes :
              LET r == futures[k].result IN
                IF k \in Failed
                THEN /\ r.text = chunks[k + 1]
                     /\ "succeeded" \in DOMAIN r
                     /\ r.succeeded = FALSE
                ELSE r.text = Strip(calls[k].response)

\* C2 amended: when the rewrite fails for chunk i only, result i is the pair
\* (i, original text of chunk i) and has no succeeded flag, every other result
\* j is the pair (j, stripped rewrite of chunk j), and no exception reaches
\* the caller.
C2_FailureRecoveredPerChunk ==
    (pc \in {"assemble", "returned"} /\ Len(chunks) > 1 /\ Cardinality(Failed) = 1) =>
        /\ exc = "none"
        /\ \A r \in result : r.success
        /\ Len(GatherResults) = Len(chunks)
        /\ \A k \in ChunkIndexes :
              LET r == futures[k].result IN
                /\ DOMAIN r = {"index", "text"}
                /\ r.index = k
                /\ r.text = IF k \in Failed THEN chunks[k + 1]
                            ELSE Strip(calls[k].response)

\* Three chunks, the rewrite of the middle one raised and the other two
\* returned a rewritten text; the call has returned.
C2_Witness ==
    /\ Returned
    /\ Len(chunks) = 3
    /\ Failed = {1}
    /\ calls[0].response = Rewritten
    /\ calls[2].response = Rewritten

\* C3: the number of rewrite calls started and not yet resolved never exceeds
\* min(max_workers, N), N the number of chunks.
C3_ConcurrencyCeiling ==
    Cardinality(running) <= Min(max_workers, Len(chunks))

\* More chunks than workers: max_workers calls are executing and a chunk is
\* waiting in the queue.
C3_Witness ==
    /\ Len(chunks) > max_workers
    /\ Cardinality(running) = max_workers
    /\ work_queue # <<>>

\* C4: no chunk ever gets more than one rewrite call, and when the chunks
\* have been combined every chunk has had exactly one, on the single-chunk
\* path and on the multi-chunk path, also when the call of a sibling raised.
C4_ExactlyOneAttempt ==
    /\ \A k \in ChunkIndexes : calls[k].attempts <= 1
    /\ (pc \in {"assemble", "returned"} /\ exc = "none") =>
          /\ Len(chunks) >= 1
          /\ \A k \in ChunkIndexes : calls[k].attempts = 1 /\ calls[k].resolved

\* Three chunks, the call of chunk 0 raised before the call of chunk 2 was
\* started, and every chunk had its call.
C4_Witness ==
    /\ Returned
    /\ Len(chunks) = 3
    /\ completed = <<0, 1, 2>>
    /\ calls[0].raised
    /\ \A k \in ChunkIndexes : calls[k].attempts = 1

\* C5: while the results are combined and when the record is returned, no
\* rewrite call is queued or executing and every future is done.
C5_NoPartialBatch ==
    pc \in {"assemble", "returned"} =>
        /\ running = {}
        /\ work_queue = <<>>
        /\ \A k \in ChunkIndexes : futures[k].done /\ calls[k].resolved

\* A three-chunk call has returned; the call of chunk 0 resolved last.
C5_Witness ==
    /\ Returned
    /\ Len(chunks) = 3
    /\ Len(completed) = 3
    /\ completed[3] = 0

RecordFields == {"cleaned_content", "word_count", "chunks_processed", "success"}

\* C6 as claimed: no exception leaves process_for_reading, whatever the
\* argument, and every record it returns has the four fields.
C6_Original ==
    /\ pc # "raised"
    /\ \A r \in result : RecordFields \subseteq DOMAIN r

\* C7 as claimed: once an exception was raised outside the per-chunk rewrite
\* and the except clause has run, the call has returned the record with the
\* original text, success=false, chunks_processed=0 and the word count of the
\* original text.
C7_Original ==
    (exc # "none" /\ pc # "except") =>
        /\ Returned
        /\ result = {[cleaned_content |-> content.value,
                      word_count |-> WordCount(content.value),
                      chunks_processed |-> 0,
                      success |-> FALSE,
                      error |-> exc]}

EmptyStr == [type |-> "str", value |-> <<>>]

\* C8 as claimed: for the empty string and for None the chunker raises, no
\* rewrite call is made and the call returns the record with the empty text,
\* success=false and chunks_processed=0.
C8_Original ==
    (content \in {EmptyStr, None} /\ pc # "start") =>
        /\ exc # "none"
        /\ \A k \in ChunkIndexes : calls[k].attempts = 0
        /\ pc \in {"except", "returned"}
        /\ \A r \in result :
              /\ r.cleaned_content = <<>>
              /\ r.success = FALSE
              /\ r.chunks_processed = 0

\* C8 amended: for the empty string the chunker does not raise, it returns
\* one chunk, the empty text; the rewrite is called once on it and the call
\* returns success=true and chunks_processed=1, the text being the stripped
\* rewrite, or the empty string when the rewrite raised.  For None the
\* chunker raises and no rewrite call is made.
C8_EmptyInputIsOneChunk ==
    /\ (content = EmptyStr /\ pc # "start") =>
          /\ exc = "none"
          /\ chunks = << <<>> >>
          /\ calls[0].attempts = IF pc = "single" THEN 0 ELSE 1
          /\ \A r \in result :
                /\ r.success = TRUE
                /\ r.chunks_processed = 1
                /\ r.cleaned_content = Expected(0)
                /\ calls[0].raised => r.cleaned_content = <<>>
    /\ (content = None /\ pc # "start") =>
          /\ exc # "none"
          /\ chunks = <<>>
          /\ running = {}

\* The empty string was rewritten to a text and the call has returned.
C8_Witness ==
    /\ Returned
    /\ content = EmptyStr
    /\ calls[0].attempts = 1
    /\ \E r \in result : r.cleaned_content = <<"b">>

\* C9: a returned record has success=true when the chunks were combined,
\* whichever rewrite calls raised; it has success=false only when an
\* exception was raised outside the rewrite calls, and then its text is the
\* original input.
C9_SuccessMeansAssembled ==
    \A r \in result :
        IF exc = "none"
        THEN r.success = TRUE /\ Len(chunks) >= 1
        ELSE r.success = FALSE /\ r.cleaned_content = content.value

\* Two chunks, the rewrite of the first raised and the rewrite of the second
\* did not, and the returned record says success.
C9_Witness ==
    /\ Returned
    /\ Len(chunks) = 2
    /\ calls[0].raised
    /\ ~calls[1].raised
    /\ \E r \in result : r.success

AllFailed == chunks # <<>> /\ \A k \in ChunkIndexes : calls[k].resolved /\ calls[k].raised

\* C10: when every rewrite call raised, the returned text has exactly the
\* words of the input in their order (and is the input itself for a single
\* chunk), success is true and chunks_processed is the number of chunks.
C10_NoChunkLost ==
    (Returned /\ AllFailed) =>
        \A r \in result :
            /\ Split(r.cleaned_content) = Split(content.value)
            /\ Len(chunks) = 1 => r.cleaned_content = content.value
            /\ r.success = TRUE
            /\ r.chunks_processed = Len(chunks)
            /\ r.word_count = WordCount(content.value)

\* Three chunks with words of different lengths, every rewrite raised, and
\* the call has returned.
C10_Witness ==
    /\ Returned
    /\ AllFailed
    /\ Len(chunks) = 3
    /\ chunks[1] # chunks[2]
    /\ result # {}


\* The record the call returns for the same input when every rewrite call
\* returns its chunk unchanged.
AllEchoedRecord ==
    LET texts == [k \in 1..Len(chunks) |-> Strip(chunks[k])]
    IN  [cleaned_content |-> IF Len(chunks) = 1 THEN texts[1]
                             ELSE Join(BlankLine, texts),
         word_count |-> WordCount(Join(BlankLine, texts)),
         chunks_processed |-> Len(chunks),
         success |-> TRUE]

\* C11 as claimed: the returned record tells a run in which the rewrite of
\* some chunk raised from a run in which every rewrite succeeded: it is never
\* the record that the same input yields when every rewrite returns its chunk.
C11_Original ==
    (Returned /\ exc = "none" /\ Failed # {}) =>
        \A r \in result : r # AllEchoedRecord

\* C11 amended: the record tells only whether the chunks were combined
\* (success=true, no error field) or the call fell back to the original input
\* (success=false with an error field); a record with success=true holds
\* nothing but the combined text, its word count and the number of chunks,
\* so it does not tell whether the rewrite of some chunk raised.
C11_SignalIsPipelineLevel ==
    \A r \in result :
        IF exc = "none"
        THEN /\ DOMAIN r = RecordFields
             /\ r = [cleaned_content |-> cleaned_content,
                     word_count |-> WordCount(cleaned_content),
                     chunks_processed |-> Len(chunks),
                     success |-> TRUE]
        ELSE /\ DOMAIN r = RecordFields \cup {"error"}
             /\ r.success = FALSE
             /\ r.error = exc

\* Two chunks, the rewrite of one raised, and the returned record is the one
\* of the run in which both rewrites returned their chunk.
C11_Witness ==
    /\ Returned
    /\ Len(chunks) = 2
    /\ Failed = {0}
    /\ result = {AllEchoedRecord}


\* _chunk_text has returned its list (line 162 did not raise).
ChunkerReturned == pc # "start" /\ exc = "none"

\* The words of the argument.
InputWords == Split(content.value)

RECURSIVE WordsOfChunks(_)
\* The words of the chunks cs, chunk after chunk.
WordsOfChunks(cs) ==
    IF cs = <<>> THEN <<>> ELSE Split(Head(cs)) \o WordsOfChunks(Tail(cs))

\* C12: a text of W > chunk_size words is split into exactly
\* ceil(W / chunk_size) chunks; chunk k holds the words k*chunk_size ..
\* (k+1)*chunk_size - 1 of the text (fewer only in the last chunk, never
\* none), and the words of the chunks in index order are the words of the
\* text.
C12_ContiguousSlices ==
    (ChunkerReturned /\ Len(InputWords) > chunk_size) =>
        LET W == Len(InputWords)
            N == Len(chunks)
        IN  /\ N * chunk_size >= W
            /\ (N - 1) * chunk_size < W
            /\ \A k \in 1..N :
                  /\ Split(chunks[k]) =
                        SubSeq(InputWords, (k - 1) * chunk_size + 1,
                               IF k * chunk_size < W THEN k * chunk_size ELSE W)
                  /\ WordCount(chunks[k]) <= chunk_size
                  /\ WordCount(chunks[k]) >= 1
                  /\ k < N => WordCount(chunks[k]) = chunk_size
            /\ WordsOfChunks(chunks) = InputWords

\* A text of 2 * chunk_size + 1 words with words of different lengths: three
\* chunks, the last one shorter.
C12_Witness ==
    /\ ChunkerReturned
    /\ Len(InputWords) = 2 * chunk_size + 1
    /\ Len(chunks) = 3
    /\ InputWords[1] # InputWords[2]
    /\ WordCount(chunks[3]) = 1

\* C13: a text of at most chunk_size words (chunk_size included) is returned
\* as exactly one chunk, at index 0, equal to the text character for
\* character.
C13_SingleChunkIsInput ==
    (ChunkerReturned /\ Len(InputWords) <= chunk_size) =>
        /\ chunks = <<content.value>>
        /\ pc = "single" => futures = [k \in {0} |-> Pending]

\* A text of exactly chunk_size words that is not the single-space join of
\* its words, returned as one chunk.
C13_Witness ==
    /\ ChunkerReturned
    /\ content.type = "str"
    /\ Len(InputWords) = chunk_size
    /\ content.value # Join(<<" ">>, InputWords)
    /\ Len(chunks) = 1

\* C14 as claimed: the chunker never returns an empty list, and a chunk
\* without words only for the empty text, as the single empty chunk.
C14_Original ==
    ChunkerReturned =>
        /\ Len(chunks) >= 1
        /\ \A k \in 1..Len(chunks) :
              WordCount(chunks[k]) = 0 =>
                  content.value = <<>> /\ chunks = << <<>> >>

\* C14 amended: the chunker never returns an empty list, and it returns a
\* chunk without words only for a text without words (the empty text or a
\* text of whitespace only); the result is then the single chunk equal to
\* that text, the empty chunk for the empty text.
C14_NoWordlessChunk ==
    ChunkerReturned =>
        /\ Len(chunks) >= 1
        /\ \A k \in 1..Len(chunks) :
              WordCount(chunks[k]) = 0 =>
                  Len(InputWords) = 0 /\ chunks = <<content.value>>
        /\ content.value = <<>> => chunks = << <<>> >>

\* A text of one space is returned as one chunk without words.
C14_Witness ==
    /\ ChunkerReturned
    /\ content = [type |-> "str", value |-> <<" ">>]
    /\ chunks = << <<" ">> >>


\* The chunks were combined (line 199 or line 167 is behind).
Assembled == pc \in {"assemble", "returned"} /\ exc = "none"

RECURSIVE Paragraphs(_, _)
\* The texts k..N of the futures in index order, each one after the first
\* preceded by two newlines.
Paragraphs(k, first) ==
    IF k > Len(chunks) - 1 THEN <<>>
    ELSE (IF first THEN <<>> ELSE <<"\n", "\n">>)
            \o futures[k].result.text \o Paragraphs(k + 1, FALSE)

\* C15: for N > 1 the combined text is the result texts in ascending index
\* order with two newlines between consecutive texts and nothing before the
\* first or after the last; for N = 1 it is the text of the only result.
C15_BlankLineJoin ==
    Assembled =>
        /\ cleaned_content = Paragraphs(0, TRUE)
        /\ Len(chunks) = 1 => cleaned_content = futures[0].result.text
        /\ \A r \in result : r.cleaned_content = cleaned_content

\* Three chunks with non-empty result texts were combined and returned.
C15_Witness ==
    /\ Returned
    /\ Len(chunks) = 3
    /\ \A k \in ChunkIndexes : futures[k].result.text # <<>>
    /\ \E r \in result : Len(r.cleaned_content) >
          Len(futures[0].result.text) + Len(futures[1].result.text)
              + Len(futures[2].result.text)

\* C16: in every returned record word_count is the number of whitespace
\* separated tokens of the text of that record.
C16_WordCountOfReturnedText ==
    \A r \in result : r.word_count = WordCount(r.cleaned_content)

\* A returned cleaned text with another number of words than the input.
C16_Witness ==
    /\ Returned
    /\ exc = "none"
    /\ \E r \in result :
          /\ r.word_count # WordCount(content.value)
          /\ r.word_count > 0

\* C17: in every record returned with success=true chunks_processed is the
\* number of chunks, each of which had its rewrite call, whether it raised
\* or not.
C17_ChunksProcessedCountsAll ==
    \A r \in result :
        r.success =>
            /\ r.chunks_processed = Len(chunks)
            /\ r.chunks_processed =
                  Cardinality({k \in ChunkIndexes : calls[k].attempts = 1})
            /\ r.chunks_processed >= 1

\* Three chunks, the rewrite of two of them raised, chunks_processed is 3.
C17_Witness ==
    /\ Returned
    /\ Len(chunks) = 3
    /\ Cardinality(Failed) = 2
    /\ \E r \in result : r.chunks_processed = 3

\* Every rewrite call returned its chunk unchanged.
AllEchoed ==
    /\ chunks # <<>>
    /\ \A k \in ChunkIndexes :
          /\ calls[k].resolved
          /\ ~calls[k].raised
          /\ calls[k].response = chunks[k + 1]

\* C18: with a rewrite that echoes its input, an input of W words comes back
\* as a text of the same W words in the same order, chunks_processed is
\* max(1, ceil(W / chunk_size)) and success is true.
C18_EchoPreservesWords ==
    (Returned /\ AllEchoed) =>
        \A r \in result :
            LET W == Len(InputWords)
                n == r.chunks_processed
            IN  /\ Split(r.cleaned_content) = InputWords
                /\ r.word_count = W
                /\ n >= 1
                /\ n * chunk_size >= W
                /\ n > 1 => (n - 1) * chunk_size < W
                /\ r.success = TRUE

\* The scaled scenario: 2 * chunk_size + 1 words, chunks of chunk_size,
\* chunk_size and 1 words, echoed and returned with chunks_processed = 3.
C18_Witness ==
    /\ Returned
    /\ AllEchoed
    /\ Len(InputWords) = 2 * chunk_size + 1
    /\ WordCount(chunks[1]) = chunk_size
    /\ WordCount(chunks[2]) = chunk_size
    /\ WordCount(chunks[3]) = 1
    /\ \E r \in result : r.chunks_processed = 3 /\ r.word_count = 2 * chunk_size + 1


\* The largest number of chunks an input of the model has.
MaxChunks == Ceil(Ceil(MaxLen, 2), chunk_size)

\* The call for chunk k waits in the executor's queue.
Queued(k) == \E j \in 1..Len(work_queue) : work_queue[j] = k

\* C19: under fair scheduling, with every rewrite call resolving, a call
\* that has chunked its input eventually returns its record, and every chunk
\* waiting for a worker is eventually started.
C19_EventuallyReturns ==
    /\ (pc \in {"single", "submit"}) ~> Returned
    /\ \A k \in 0..(MaxChunks - 1) :
          Queued(k) ~> (k \in DOMAIN calls /\ calls[k].attempts = 1)

\* More chunks than workers: the call has returned although a chunk had to
\* wait until a worker had finished another call.
C19_Witness ==
    /\ Returned
    /\ Len(chunks) > max_workers
    /\ num_threads = max_workers
    /\ \A k \in ChunkIndexes : calls[k].resolved


\* Rewrite calls of both calls that have started and not resolved.
InFlight == Cardinality(running) + other.running

\* C20: the ceiling holds per call: each call with several chunks has an
\* executor of its own with min(max_workers, N) workers, N its own number of
\* chunks, each call has at most that many rewrite calls in flight, both
\* together at most the sum, and the record of the first call is made of its
\* own results whatever the second call does.
C20_CeilingPerCall ==
    /\ Cardinality(running) <= Min(max_workers, Len(chunks))
    /\ other.running <= Min(max_workers, other.n)
    /\ InFlight <= Min(max_workers, Len(chunks)) + Min(max_workers, other.n)
    /\ Len(chunks) > 1 => max_pool = Min(max_workers, Len(chunks))
    /\ other.pc \in {"submit", "await", "returned"} /\ other.n > 1 =>
          other.max_pool = Min(max_workers, other.n)
    /\ (Returned /\ exc = "none") =>
          \A r \in result :
              /\ r.cleaned_content =
                    Join(BlankLine, [k \in 1..Len(chunks) |-> Expected(k - 1)])
              /\ r.chunks_processed = Len(chunks)

\* Two calls of three chunks each have 2 * max_workers rewrite calls in
\* flight, more than the ceiling of one call.
C20_Witness ==
    /\ Len(chunks) > max_workers
    /\ other.n > max_workers
    /\ Cardinality(running) = max_workers
    /\ other.running = max_workers
    /\ InFlight = 2 * max_workers

\* ------------------------------------------------------------------------
\* Properties of a request
\* ------------------------------------------------------------------------

\* The endpoint has ended, and what it returned or raised.
Done == hpc = "done"
TheResponse == CHOOSE r \in response : TRUE

\* extract_content has returned.
ExtractionReturned ==
    hpc \in {"extracted", "cleaning", "done"} /\ extraction # <<>>

Called(f) == \E i \in 1..Len(invoked) : invoked[i] = f

\* handle_extract_and_prepare has returned to the endpoint, and its value as
\* the response carries it.
HandlerReturned == Done /\ Called("handle_extract_and_prepare") /\ hexc = NoException
HandlerResult ==
    IF request.endpoint = "handle_message" THEN TheResponse.value.data
    ELSE TheResponse.value

\* C21: process_for_reading is called only after an extraction that
\* succeeded, and nothing of it runs before it is called; when
\* extract_content has returned success=false, process_for_reading is not
\* called and no rewrite call is made, and the handler returns the
\* extraction record as it is.
C21_CleaningOnlyAfterSuccess ==
    /\ Called("process_for_reading") =>
            extraction # <<>> /\ Last(extraction).success
    /\ pc # "idle" => Called("process_for_reading")
    /\ (ExtractionReturned /\ ~Last(extraction).success) =>
            /\ ~Called("process_for_reading")
            /\ pc = "idle"
            /\ calls = <<>>
            /\ Done => /\ HandlerReturned
                       /\ ~TheResponse.raised
                       /\ HandlerResult = Last(extraction)
                       /\ HandlerResult.success = FALSE
                       /\ HandlerResult.error # null

\* Both extractors have failed for a message to handle_message, and the
\* response carries the record of the second failure.
C21_Witness ==
    /\ Done
    /\ request.endpoint = "handle_message"
    /\ Len(extraction) = 2
    /\ ~Last(extraction).success
    /\ TheResponse.value.data = Last(extraction)
    /\ calls = <<>>

\* C22: when the extraction succeeded, the handler returns success=true;
\* content, word_count and chunks_processed are those of the cleaned record
\* when cleaning reported success, and otherwise the extracted content, its
\* word count and 0; word_count is the number of whitespace-separated
\* tokens of the returned content, and chunks_processed is 0 exactly when
\* cleaning reported failure.
C22_PreparedRecordAgrees ==
    (Done /\ extraction # <<>> /\ Last(extraction).success) =>
        /\ HandlerReturned
        /\ ~TheResponse.raised
        /\ LET r == HandlerResult
               e == Last(extraction)
               processed == Processed
           IN  /\ r.success = TRUE
               /\ processed.success =>
                    /\ r.content = processed.cleaned_content
                    /\ r.word_count = processed.word_count
                    /\ r.chunks_processed = processed.chunks_processed
               /\ ~processed.success =>
                    /\ r.content = e.content
                    /\ r.word_count = WordCount(e.content)
                    /\ r.chunks_processed = 0
               /\ r.word_count = WordCount(r.content)
               /\ (r.chunks_processed = 0) <=> ~processed.success

\* Firecrawl has extracted three words after BeautifulSoup failed, cleaning
\* has reported failure, and the handler has returned the extracted content.
C22_Witness ==
    /\ Done
    /\ Len(extraction) = 2
    /\ Last(extraction).success
    /\ ~Processed.success
    /\ HandlerResult.content = Last(extraction).content
    /\ HandlerResult.word_count = 3
    /\ HandlerResult.chunks_processed = 0

\* The message has an action, and the action is no key of the handler table.
ActionNotInTable(m) ==
    /\ ParseRaises(m) = NoException
    /\ ~(m.action.type = "str" /\ m.action.name \in handlers)

\* The text is an "Unknown action" error.
IsUnknownAction(text) == text \in {UnknownAction(a) : a \in ActionValues}

\* C23, as the claim states it: handle_message raises for no message; when
\* anything raised, the response has type "error", success=false and the
\* text of the exception; an action that is not in the handler table gets
\* type "error", success=false and an "Unknown action" text, and no handler
\* is called for it.
C23_Original ==
    (Done /\ request.endpoint = "handle_message") =>
        LET r == TheResponse
            m == request.message
        IN  /\ ~r.raised
            /\ hexc # NoException =>
                    /\ r.value.type = "error"
                    /\ r.value.success = FALSE
                    /\ r.value.error = hexc.text
            /\ ActionNotInTable(m) =>
                    /\ r.value.type = "error"
                    /\ r.value.success = FALSE
                    /\ IsUnknownAction(r.value.error)
                    /\ ~Called("handle_extract_and_prepare")

\* C23, amended: handle_message raises for no message; when anything
\* raised, the response has type "error", success=false and the text of the
\* exception; an action that is not in the handler table gets type "error"
\* and success=false and no handler is called for it; its error is an
\* "Unknown action" text when the action can be hashed, and the text of the
\* TypeError of the table lookup when it cannot (a JSON array).
C23_NeverRaises ==
    (Done /\ request.endpoint = "handle_message") =>
        LET r == TheResponse
            m == request.message
        IN  /\ ~r.raised
            /\ hexc # NoException =>
                    /\ r.value.type = "error"
                    /\ r.value.success = FALSE
                    /\ r.value.error = hexc.text
            /\ ActionNotInTable(m) =>
                    /\ r.value.type = "error"
                    /\ r.value.success = FALSE
                    /\ ~Called("handle_extract_and_prepare")
                    /\ IF m.action.type = "str"
                       THEN IsUnknownAction(r.value.error)
                       ELSE r.value.error = Unhashable.text

\* A message whose action is a JSON array has been answered with the text
\* of the TypeError.
C23_Witness ==
    /\ Done
    /\ request.endpoint = "handle_message"
    /\ ActionNotInTable(request.message)
    /\ request.message.action.type = "list"
    /\ ~TheResponse.raised
    /\ TheResponse.value.type = "error"
    /\ TheResponse.value.error = "unhashable type: 'list'"
    /\ ~Called("handle_extract_and_prepare")

\* C24: the top-level success of a response of handle_message is false
\* exactly when the action is not in the handler table or something raised;
\* when the handler of a known action returned, the response has type
\* "response" and success=true, whatever the success of its data.
C24_TopLevelSuccess ==
    (Done /\ request.endpoint = "handle_message") =>
        LET r == TheResponse
            m == request.message
        IN  /\ ~r.raised
            /\ (r.value.success = FALSE)
                    <=> (ActionNotInTable(m) \/ hexc # NoException)
            /\ HandlerReturned =>
                    /\ r.value.type = "response"
                    /\ r.value.success = TRUE
                    /\ r.value.action = m.action
                    /\ r.value.id = Id(m)

\* The handler has returned a failed extraction and the response says
\* success=true.
C24_Witness ==
    /\ Done
    /\ request.endpoint = "handle_message"
    /\ HandlerReturned
    /\ TheResponse.value.type = "response"
    /\ TheResponse.value.success = TRUE
    /\ TheResponse.value.data.success = FALSE

\* C25: /api/extract lets no exception out, in extract_url and in
\* extract_url_route: an exception raised while handling the request, the
\* ValueError of a request without url included, becomes the body
\* {success: false, error: message}; otherwise the body is what the handler
\* returned, the failed extraction or the prepared record.
C25_RestNeverRaises ==
    (Done /\ request.endpoint \in RestEndpoints) =>
        LET r == TheResponse IN
            /\ ~r.raised
            /\ hexc # NoException =>
                    r.value = [success |-> FALSE, error |-> hexc.text]
            /\ RequireUrlRaises(Data) # NoException =>
                    r.value = [success |-> FALSE, error |-> "URL is required"]
            /\ hexc = NoException =>
                    /\ extraction # <<>>
                    /\ r.value = IF Last(extraction).success
                                 THEN Prepared(Last(extraction), Processed)
                                 ELSE Last(extraction)

\* extract_url_route has answered a request without url.
C25_Witness ==
    /\ Done
    /\ request.endpoint = "extract_url_route"
    /\ "url" \notin request.request.keys
    /\ TheResponse = EndpointReturns([success |-> FALSE,
                                      error |-> "URL is required"])

\* The extractors called so far, in call order.
ExtractorCalls ==
    SelectSeq(invoked, LAMBDA f : f \in {"_beautifulsoup_extract",
                                         "_firecrawl_fallback"})

\* C26: extract_content calls the BeautifulSoup extractor first and the
\* Firecrawl fallback only after the first attempt returned success=false;
\* no exception comes out of it; when both attempts failed its record has
\* success=false, empty content, word_count 0 and an error that is not
\* null.
C26_BeautifulSoupFirst ==
    /\ ExtractorCalls \in {<<>>, <<"_beautifulsoup_extract">>,
                           <<"_beautifulsoup_extract", "_firecrawl_fallback">>}
    /\ Len(extraction) = Len(ExtractorCalls)
    /\ Called("_firecrawl_fallback") => ~extraction[1].success
    /\ (extraction # <<>> /\ extraction[1].success) =>
            hpc # "fallback" /\ Len(extraction) = 1
    /\ Called("extract_content") =>
            hexc = NoException /\ (Done => ~TheResponse.raised)
    /\ (ExtractionReturned /\ Len(extraction) = 2
            /\ ~Last(extraction).success) =>
            /\ Last(extraction).content = <<>>
            /\ Last(extraction).word_count = 0
            /\ Last(extraction).error # null

\* Both attempts have failed and the request has been answered.
C26_Witness ==
    /\ Done
    /\ ExtractorCalls = <<"_beautifulsoup_extract", "_firecrawl_fallback">>
    /\ ~extraction[1].success
    /\ ~extraction[2].success
    /\ extraction[2].error # null

====
